---- MODULE Spec2Model ----
(***************************************************************************)
(* NodeNest workflow execution engine.                                     *)
(*                                                                         *)
(* src/src/lib/dag.ts              graph utilities (cycle detection,       *)
(*                                 execution graph, ready set, inputs)     *)
(* src/src/lib/workflowExecutor.ts validateDAG, executeNode and the wave   *)
(*                                 scheduler executeWorkflow               *)
(*                                                                         *)
(* Three specifications:                                                   *)
(*   Spec        executeWorkflow as a state machine (one run)              *)
(*   SpecGraph   validateDAG / detectCycles applied to drawn graphs        *)
(*   SpecInputs  collectNodeInputs and the input merge applied to drawn    *)
(*               nodes, edges and upstream results                         *)
(***************************************************************************)
EXTENDS Integers, Sequences, FiniteSets, TLC

(***************************************************************************)
(* Bounds                                                                  *)
(***************************************************************************)
\* SpecGraph: node ids are 1..k with k <= MaxGraphNodes, edge endpoints range
\* over 1..MaxGraphNodes (an endpoint above k is a dangling reference).
MaxGraphNodes == 3
\* SpecGraph: the edge list has at most MaxGraphEdges entries (repeats allowed).
MaxGraphEdges == 3
\* Spec: at most MaxDbFailures persistence calls reject in one run.
MaxDbFailures == 2
\* nodes of a hand-built execution map
MaxLoopNodes == 2

(***************************************************************************)
(* Sequence helpers                                                        *)
(***************************************************************************)
Range(s) == {s[i] : i \in 1..Len(s)}

Front(s) == SubSeq(s, 1, Len(s) - 1)

\* Array.prototype.includes
Includes(s, x) == \E i \in 1..Len(s) : s[i] = x

\* Array.prototype.filter, keeping order
RECURSIVE SelectIdx(_, _, _)
SelectIdx(s, keep, i) ==
    IF i > Len(s) THEN << >>
    ELSE IF s[i] \in keep THEN <<s[i]>> \o SelectIdx(s, keep, i + 1)
    ELSE SelectIdx(s, keep, i + 1)

(***************************************************************************)
(* dag.ts: detectCycles                                                    *)
(* A graph is a node id sequence ns and an edge sequence es of records     *)
(* with fields source and target.                                          *)
(***************************************************************************)
\* graph.get(nodeId) || []  - the targets of the edges leaving nodeId, in
\* edge-list order (the adjacency list is built from the edges only).
RECURSIVE NeighborsFrom(_, _, _)
NeighborsFrom(es, nodeId, i) ==
    IF i > Len(es) THEN << >>
    ELSE IF es[i].source = nodeId
         THEN <<es[i].target>> \o NeighborsFrom(es, nodeId, i + 1)
         ELSE NeighborsFrom(es, nodeId, i + 1)

Neighbors(es, nodeId) == NeighborsFrom(es, nodeId, 1)

\* The DFS state shared by the closure: visited, recStack and the cycle array.
\* dfs returns found (its boolean result) together with the state it leaves.
RECURSIVE dfs(_, _, _), dfsLoop(_, _, _, _, _), dfsLoopVisited(_, _, _, _, _)
dfs(es, nodeId, st) ==
    dfsLoop(es, nodeId, Neighbors(es, nodeId), 1,
            [found    |-> FALSE,
             visited  |-> st.visited \cup {nodeId},
             recStack |-> st.recStack \cup {nodeId},
             cycle    |-> Append(st.cycle, nodeId)])

\* a DFS that takes every visited successor for a back edge
dfsLoopVisited(es, nodeId, nbrs, i, st) ==
    IF i > Len(nbrs)
    THEN [found    |-> FALSE,
          visited  |-> st.visited,
          recStack |-> st.recStack \ {nodeId},
          cycle    |-> Front(st.cycle)]
    ELSE IF nbrs[i] \notin st.visited
         THEN LET r == dfs(es, nbrs[i], st)
              IN  IF r.found THEN r ELSE dfsLoopVisited(es, nodeId, nbrs, i + 1, r)
         ELSE [st EXCEPT !.found = TRUE, !.cycle = Append(st.cycle, nbrs[i])]

dfsLoop(es, nodeId, nbrs, i, st) ==
    IF i > Len(nbrs)
    THEN [found    |-> FALSE,
          visited  |-> st.visited,
          recStack |-> st.recStack \ {nodeId},
          cycle    |-> Front(st.cycle)]
    ELSE IF nbrs[i] \notin st.visited
         THEN LET r == dfs(es, nbrs[i], st)
              IN  IF r.found THEN r ELSE dfsLoop(es, nodeId, nbrs, i + 1, r)
         ELSE IF nbrs[i] \in st.recStack
              THEN [st EXCEPT !.found = TRUE, !.cycle = Append(st.cycle, nbrs[i])]
              ELSE dfsLoop(es, nodeId, nbrs, i + 1, st)

RECURSIVE detectFrom(_, _, _, _)
detectFrom(ns, es, i, st) ==
    IF i > Len(ns) THEN st
    ELSE IF ns[i] \notin st.visited
         THEN LET r == dfs(es, ns[i], st)
              IN  IF r.found THEN r ELSE detectFrom(ns, es, i + 1, r)
         ELSE detectFrom(ns, es, i + 1, st)

\* detectCycles(nodes, edges): [found |-> FALSE] stands for null, otherwise
\* cycle is the returned array.
detectCycles(ns, es) ==
    LET r == detectFrom(ns, es, 1,
                 [found |-> FALSE, visited |-> {}, recStack |-> {}, cycle |-> << >>])
    IN  [found |-> r.found, cycle |-> IF r.found THEN r.cycle ELSE << >>]

(***************************************************************************)
(* workflowExecutor.ts: validateDAG                                        *)
(***************************************************************************)
RECURSIVE firstBadEdge(_, _, _), firstBadEdgeSourceOnly(_, _, _)
\* an edge scan that tests the source of each edge and not its target
firstBadEdgeSourceOnly(ns, es, i) ==
    IF i > Len(es) THEN 0
    ELSE IF es[i].source \notin Range(ns) THEN i
    ELSE firstBadEdgeSourceOnly(ns, es, i + 1)

firstBadEdge(ns, es, i) ==
    IF i > Len(es) THEN 0
    ELSE IF es[i].source \notin Range(ns) \/ es[i].target \notin Range(ns) THEN i
    ELSE firstBadEdge(ns, es, i + 1)

\* a validation that names the target of the offending edge when it can
validateDAGTargetFirst(ns, es) ==
    LET c == detectCycles(ns, es)
        b == firstBadEdge(ns, es, 1)
    IN  IF c.found
        THEN [valid |-> FALSE, kind |-> "cycle", path |-> c.cycle, ref |-> 0]
        ELSE IF b # 0
             THEN [valid |-> FALSE, kind |-> "dangling", path |-> << >>,
                   ref |-> IF es[b].target \notin Range(ns)
                           THEN es[b].target ELSE es[b].source]
             ELSE [valid |-> TRUE, kind |-> "ok", path |-> << >>, ref |-> 0]

\* kind is "ok", "cycle" (path = the cycle array joined into the message) or
\* "dangling" (ref = the id named in the message).
validateDAG(ns, es) ==
    LET c == detectCycles(ns, es)
        b == firstBadEdge(ns, es, 1)
    IN  IF c.found
        THEN [valid |-> FALSE, kind |-> "cycle", path |-> c.cycle, ref |-> 0]
        ELSE IF b # 0
             THEN [valid |-> FALSE, kind |-> "dangling", path |-> << >>,
                   ref |-> IF es[b].source \notin Range(ns)
                           THEN es[b].source ELSE es[b].target]
             ELSE [valid |-> TRUE, kind |-> "ok", path |-> << >>, ref |-> 0]


(***************************************************************************)
(* JavaScript values                                                       *)
(* A value is a record with a kind and one payload field per kind, so that *)
(* any two values can be compared.  Objects (node data, collected inputs)  *)
(* are functions from field names to values; an absent key is undefined.   *)
(***************************************************************************)
Undefined == [kind |-> "undefined", s |-> "", n |-> 0, l |-> << >>]

Str(x) == [kind |-> "string", s |-> x, n |-> 0, l |-> << >>]

Num(k) == [kind |-> "number", s |-> "", n |-> k, l |-> << >>]

NaN == [kind |-> "NaN", s |-> "", n |-> 0, l |-> << >>]

List(q) == [kind |-> "array", s |-> "", n |-> 0, l |-> q]

\* ToBoolean: undefined, "", 0 and NaN are falsy; arrays are truthy.
Truthy(v) ==
    CASE v.kind = "undefined" -> FALSE
      [] v.kind = "string"    -> v.s # ""
      [] v.kind = "number"    -> v.n # 0
      [] v.kind = "NaN"       -> FALSE
      [] OTHER                -> TRUE

\* a || b
OrElse(a, b) == IF Truthy(a) THEN a ELSE b

\* The decimal strings the model uses and the numbers they denote.
DecimalOf == [x \in {"0", "2", "50"} |-> CASE x = "0" -> 0 [] x = "2" -> 2 [] OTHER -> 50]

\* parseFloat: a number stays itself, a decimal string gives its number, any
\* other value gives NaN.
parseFloat(v) ==
    CASE v.kind = "number" -> v
      [] v.kind = "string" /\ v.s \in DOMAIN DecimalOf -> Num(DecimalOf[v.s])
      [] OTHER -> NaN

\* obj.key
Get(obj, key) == IF key \in DOMAIN obj THEN obj[key] ELSE Undefined

\* obj.key = v
Put(obj, key, v) ==
    [k \in DOMAIN obj \cup {key} |-> IF k = key THEN v ELSE obj[k]]

\* { ...a, ...b }
Spread(a, b) ==
    [k \in DOMAIN a \cup DOMAIN b |-> IF k \in DOMAIN b THEN b[k] ELSE a[k]]

EmptyObj == [k \in {} |-> Undefined]

\* String.prototype.startsWith over the handle names of the model.
StartsWith(h, prefix) ==
    CASE prefix = "images-" -> h \in {"images-0", "images-1"}
      [] prefix = "image-"  -> h \in {"image-0"}
      [] OTHER              -> FALSE

(***************************************************************************)
(* dag.ts: collectNodeInputs                                               *)
(* en is the executionNodes map: id -> [status, output, ...].  Edges carry *)
(* sourceHandle and targetHandle, "" standing for an absent handle.        *)
(***************************************************************************)
\* inputs.images.push(v), creating the array first when it is missing
\* an images field that keeps only the latest value
PushImageReplace(inputs, v) == Put(inputs, "images", List(<<v>>))

PushImage(inputs, v) ==
    IF Truthy(Get(inputs, "images"))
    THEN Put(inputs, "images", List(Append(inputs["images"].l, v)))
    ELSE Put(inputs, "images", List(<<v>>))

\* The body of the loop for one incoming edge whose source is completed with
\* a truthy output.
routeEdge(inputs, nodeType, edge, out) ==
    LET targetHandle == IF edge.targetHandle # "" THEN edge.targetHandle ELSE "default"
        sourceHandle == IF edge.sourceHandle # "" THEN edge.sourceHandle ELSE "output"
    IN  CASE nodeType = "llm" ->
               (CASE targetHandle = "system_prompt" -> Put(inputs, "systemPrompt", out)
                  [] targetHandle = "user_message"  -> Put(inputs, "userPrompt", out)
                  [] StartsWith(targetHandle, "images-") -> PushImage(inputs, out)
                  [] OTHER -> inputs)
          [] nodeType = "crop" ->
               (CASE targetHandle = "image_url" -> Put(inputs, "imageUrl", out)
                  [] targetHandle = "x_percent" ->
                       Put(inputs, "xPercent", OrElse(parseFloat(out), Num(0)))
                  [] targetHandle = "y_percent" ->
                       Put(inputs, "yPercent", OrElse(parseFloat(out), Num(0)))
                  [] targetHandle = "width_percent" ->
                       Put(inputs, "widthPercent", OrElse(parseFloat(out), Num(100)))
                  [] targetHandle = "height_percent" ->
                       Put(inputs, "heightPercent", OrElse(parseFloat(out), Num(100)))
                  [] OTHER -> inputs)
          [] nodeType = "extractFrame" ->
               (CASE targetHandle = "video_url" -> Put(inputs, "videoUrl", out)
                  [] targetHandle = "timestamp" -> Put(inputs, "timestamp", out)
                  [] OTHER -> inputs)
          [] OTHER ->
               IF sourceHandle = "output"
               THEN IF targetHandle = "prompt" \/ targetHandle = "user_message"
                    THEN Put(inputs, "userPrompt", out)
                    ELSE Put(inputs, targetHandle, out)
               ELSE IF \/ sourceHandle = "image-output"
                       \/ StartsWith(targetHandle, "image-")
                       \/ StartsWith(targetHandle, "images-")
                    THEN PushImage(inputs, out)
                    ELSE Put(inputs, targetHandle, out)

RECURSIVE collectFrom(_, _, _, _, _, _), collectFromAnyStatus(_, _, _, _, _, _)
\* a collection that reads the output of a source whatever its status
collectFromAnyStatus(nodeId, en, es, nodeType, i, inputs) ==
    IF i > Len(es) THEN inputs
    ELSE IF /\ es[i].target = nodeId
            /\ es[i].source \in DOMAIN en
            /\ Truthy(en[es[i].source].output)
         THEN collectFromAnyStatus(nodeId, en, es, nodeType, i + 1,
                                   routeEdge(inputs, nodeType, es[i], en[es[i].source].output))
         ELSE collectFromAnyStatus(nodeId, en, es, nodeType, i + 1, inputs)

collectFrom(nodeId, en, es, nodeType, i, inputs) ==
    IF i > Len(es) THEN inputs
    ELSE IF /\ es[i].target = nodeId
            /\ es[i].source \in DOMAIN en
            /\ en[es[i].source].status = "completed"
            /\ Truthy(en[es[i].source].output)
         THEN collectFrom(nodeId, en, es, nodeType, i + 1,
                          routeEdge(inputs, nodeType, es[i], en[es[i].source].output))
         ELSE collectFrom(nodeId, en, es, nodeType, i + 1, inputs)

collectNodeInputs(nodeId, en, es, nodeType) ==
    collectFrom(nodeId, en, es, nodeType, 1, EmptyObj)

(***************************************************************************)
(* workflowExecutor.ts: the input merge inside executeWorkflow             *)
(***************************************************************************)
\* if (!inputs.f && data.g !== undefined) nodeInputs.f = data.g
FromDataIfDefined(nodeInputs, inputs, data, f, g) ==
    IF ~Truthy(Get(inputs, f)) /\ Get(data, g) # Undefined
    THEN Put(nodeInputs, f, data[g]) ELSE nodeInputs

\* if (!inputs.f && data.g) nodeInputs.f = data.g
FromDataIfTruthy(nodeInputs, inputs, data, f, g) ==
    IF ~Truthy(Get(inputs, f)) /\ Truthy(Get(data, g))
    THEN Put(nodeInputs, f, data[g]) ELSE nodeInputs

\* a merge that keeps the static data and forgets the collected inputs
mergeStaticOnly(nodeType, data, inputs) == data

mergeNodeInputs(nodeType, data, inputs) ==
    LET base == Spread(data, inputs)
    IN  CASE nodeType = "crop" ->
               LET a == FromDataIfDefined(base, inputs, data, "xPercent", "xPercent")
                   b == FromDataIfDefined(a, inputs, data, "yPercent", "yPercent")
                   c == FromDataIfDefined(b, inputs, data, "widthPercent", "widthPercent")
                   d == FromDataIfDefined(c, inputs, data, "heightPercent", "heightPercent")
               IN  FromDataIfTruthy(d, inputs, data, "imageUrl", "imageUrl")
          [] nodeType = "extractFrame" ->
               LET a == FromDataIfDefined(base, inputs, data, "timestamp", "timestamp")
               IN  FromDataIfTruthy(a, inputs, data, "videoUrl", "videoUrl")
          [] nodeType = "llm" ->
               LET a == FromDataIfTruthy(base, inputs, data, "model", "model")
                   b == FromDataIfTruthy(a, inputs, data, "systemPrompt", "systemPrompt")
               IN  FromDataIfTruthy(b, inputs, data, "userPrompt", "userMessage")
          [] OTHER -> base


(***************************************************************************)
(* dag.ts: topologicalSort (Kahn), buildExecutionGraph, getReadyNodes      *)
(***************************************************************************)
\* inDegree after the edge loop: every edge whose target is a node adds one
\* (an edge to an unknown id creates an entry that the node loop never made).
InDegree(ns, es) ==
    [t \in Range(ns) \cup {es[i].target : i \in 1..Len(es)} |->
        Cardinality({i \in 1..Len(es) : es[i].target = t})]

RECURSIVE lowerDegrees(_, _, _, _), lowerDegreesOnce(_, _, _, _)
\* an inner loop that lowers the degree of a neighbour once, however often
\* it stands in the neighbour list
lowerDegreesOnce(nbrs, i, deg, queue) ==
    IF i > Len(nbrs) THEN [deg |-> deg, queue |-> queue]
    ELSE LET nb == nbrs[i]
             newDegree == (IF nb \in DOMAIN deg THEN deg[nb] ELSE 0) - 1
             deg2 == [k \in DOMAIN deg \cup {nb} |-> IF k = nb THEN newDegree ELSE deg[k]]
         IN  IF \E j \in 1..(i - 1) : nbrs[j] = nb
             THEN lowerDegreesOnce(nbrs, i + 1, deg, queue)
             ELSE lowerDegreesOnce(nbrs, i + 1, deg2,
                                   IF newDegree = 0 THEN Append(queue, nb) ELSE queue)

\* the inner for-loop of the queue processing: st = [deg, queue]
lowerDegrees(nbrs, i, deg, queue) ==
    IF i > Len(nbrs) THEN [deg |-> deg, queue |-> queue]
    ELSE LET nb == nbrs[i]
             newDegree == (IF nb \in DOMAIN deg THEN deg[nb] ELSE 0) - 1
             deg2 == [k \in DOMAIN deg \cup {nb} |-> IF k = nb THEN newDegree ELSE deg[k]]
         IN  lowerDegrees(nbrs, i + 1, deg2,
                          IF newDegree = 0 THEN Append(queue, nb) ELSE queue)

RECURSIVE kahn(_, _, _, _)
kahn(es, deg, queue, result) ==
    IF queue = << >> THEN result
    ELSE LET r == lowerDegrees(Neighbors(es, Head(queue)), 1, deg, Tail(queue))
         IN  kahn(es, r.deg, r.queue, Append(result, Head(queue)))

\* Map.entries() order: the nodes in list order, then edge targets that are
\* not nodes in order of first appearance; only the node part can have
\* degree zero.
topologicalSort(ns, es) ==
    LET deg == InDegree(ns, es)
        queue == SelectIdx(ns, {n \in Range(ns) : deg[n] = 0}, 1)
        result == kahn(es, deg, queue, << >>)
    IN  [throws |-> Len(result) # Len(ns), sorted |-> result]

RECURSIVE depsFrom(_, _, _, _, _), depsFromEveryEdge(_, _, _, _, _)
\* an edge loop that pushes for every edge, repeated or not
depsFromEveryEdge(ns, es, n, asTarget, i) ==
    IF i = 0 THEN << >>
    ELSE LET rest == depsFromEveryEdge(ns, es, n, asTarget, i - 1)
             mine == IF asTarget THEN es[i].target ELSE es[i].source
             other == IF asTarget THEN es[i].source ELSE es[i].target
         IN  IF /\ es[i].source \in Range(ns)
                /\ es[i].target \in Range(ns)
                /\ mine = n
             THEN Append(rest, other) ELSE rest

\* the ids x pushed for node n by the edge loop, without repeats:
\* field "source" with n as target gives dependencies, the converse dependents
depsFrom(ns, es, n, asTarget, i) ==
    IF i = 0 THEN << >>
    ELSE LET rest == depsFrom(ns, es, n, asTarget, i - 1)
             mine == IF asTarget THEN es[i].target ELSE es[i].source
             other == IF asTarget THEN es[i].source ELSE es[i].target
         IN  IF /\ es[i].source \in Range(ns)
                /\ es[i].target \in Range(ns)
                /\ mine = n
                /\ ~Includes(rest, other)
             THEN Append(rest, other) ELSE rest

buildExecutionGraph(ns, es) ==
    [n \in Range(ns) |->
        [status       |-> "pending",
         dependencies |-> depsFrom(ns, es, n, TRUE, Len(es)),
         dependents   |-> depsFrom(ns, es, n, FALSE, Len(es)),
         output       |-> Undefined,
         error        |-> ""]]

\* executionNodes.get(depId)?.status === "completed"
DepCompleted(en, depId) == depId \in DOMAIN en /\ en[depId].status = "completed"

\* a ready test without the test of the node's own status
getReadyNodesAnyStatus(ns, en) ==
    SelectIdx(ns, {n \in Range(ns) :
                     \A k \in 1..Len(en[n].dependencies) :
                        DepCompleted(en, en[n].dependencies[k])}, 1)

\* a ready test that is satisfied by one completed dependency
getReadyNodesSome(ns, en) ==
    SelectIdx(ns, {n \in Range(ns) :
                     /\ en[n].status = "pending"
                     /\ \/ en[n].dependencies = << >>
                        \/ \E k \in 1..Len(en[n].dependencies) :
                              DepCompleted(en, en[n].dependencies[k])}, 1)

\* The ready list in Map order (the order of the node list).
getReadyNodes(ns, en) ==
    SelectIdx(ns, {n \in Range(ns) :
                     /\ en[n].status = "pending"
                     /\ \A k \in 1..Len(en[n].dependencies) :
                            DepCompleted(en, en[n].dependencies[k])}, 1)

(***************************************************************************)
(* workflowExecutor.ts: executeNode                                        *)
(* ext is what the Trigger.dev task did: kind "ok" (triggerAndWait gave a  *)
(* result with ok = true whose output is [success, output, error]),        *)
(* "okNoOutput" (ok = true and no output object), "notOk" (ok = false;     *)
(* error is the message when it is a string, "" when it is not a string)   *)
(* or "throws" (triggerAndWait rejected with an Error whose message is     *)
(* error).  A result is [threw, success, output, error]; with threw the    *)
(* error is the message of the exception that left the function.           *)
(***************************************************************************)
Thrown(msg) == [threw |-> TRUE, success |-> FALSE, output |-> Undefined, error |-> msg]

Returned(success, output, error) ==
    [threw |-> FALSE, success |-> success, output |-> output, error |-> error]

\* lines 31-115: the body of the try block
executeNodeBody(nodeType, inputs, ext) ==
    CASE nodeType = "text" ->
           Returned(TRUE, OrElse(Get(inputs, "content"), Str("")), "")
      [] nodeType = "image" ->
           Returned(TRUE, OrElse(Get(inputs, "imageUrl"),
                                 OrElse(Get(inputs, "imageBase64"), Str(""))), "")
      [] nodeType = "video" ->
           Returned(TRUE, OrElse(Get(inputs, "videoUrl"), Str("")), "")
      [] nodeType \in {"llm", "crop", "extractFrame"} ->
           (CASE ext.kind = "ok" -> Returned(ext.success, ext.output, ext.error)
              [] ext.kind = "okNoOutput" -> Thrown("Cannot read properties of undefined")
              [] ext.kind = "notOk" ->
                   Returned(FALSE, Undefined,
                            IF ext.error # "" THEN ext.error ELSE "Task execution failed")
              [] OTHER -> Thrown(ext.error))
      [] OTHER -> Thrown("Unknown node type")

\* the function without its catch block
executeNodeNoCatch(nodeType, inputs, ext) == executeNodeBody(nodeType, inputs, ext)

\* lines 116-123: the catch block turns an exception into a result
executeNode(nodeType, inputs, ext) ==
    LET r == executeNodeBody(nodeType, inputs, ext)
    IN  IF r.threw
        THEN Returned(FALSE, Undefined, IF r.error # "" THEN r.error ELSE "Execution failed")
        ELSE r


(***************************************************************************)
(* State of one executeWorkflow call                                       *)
(***************************************************************************)
VARIABLES
    nodes,          \* Node[]: sequence of [id, type, data]
    edges,          \* Edge[]: sequence of [source, target, sourceHandle, targetHandle]
    pc,             \* position of executeWorkflow
    validation,     \* result of validateDAG
    workflowRun,    \* the WorkflowRun record: [status, error]
    nodeRuns,       \* the NodeRun records: id -> [status, inputs]
    executionNodes, \* Map<string, ExecutionNode>
    completed,      \* Set<string> completed
    waveNumber,
    readyNodes,     \* the ready list of the current wave
    task,           \* per node: position of its dispatch closure and its locals
    nodeResults,    \* Map nodeResults
    errors,         \* Map errors
    outcome,        \* what executeWorkflow returned or threw
    dbFailures,     \* persistence calls that rejected so far
    waveOf,         \* per node: the wave that dispatched it (0: none)
    collected,      \* SpecInputs, SpecNode: [inputs, nodeInputs, ext, result] of the
                    \* drawn node
    sortedNodes     \* const sortedNodes: the ids in the order of topologicalSort

vars == <<nodes, edges, pc, validation, workflowRun, nodeRuns, executionNodes,
          completed, waveNumber, readyNodes, task, nodeResults, errors, outcome,
          dbFailures, waveOf, collected, sortedNodes>>

ids == {nodes[i].id : i \in 1..Len(nodes)}

idSeq == [i \in 1..Len(nodes) |-> nodes[i].id]

NodeOf(n) == CHOOSE x \in Range(nodes) : x.id = n

IdleTask == [pc |-> "idle", nodeInputs |-> EmptyObj]

\* nothing collected, nothing executed
NoCollected ==
    [inputs |-> EmptyObj, nodeInputs |-> EmptyObj,
     ext |-> [kind |-> "none", success |-> TRUE, output |-> Undefined, error |-> ""],
     result |-> Returned(FALSE, Undefined, "")]

NoOutcome == [kind |-> "none", status |-> "", error |-> ""]

\* The part of the state that is the same at the start of every run.
InitCommon ==
    /\ validation = [valid |-> FALSE, kind |-> "none", path |-> << >>, ref |-> 0]
    /\ workflowRun = [status |-> "none", error |-> ""]
    /\ nodeRuns = [n \in ids |-> [status |-> "none", inputs |-> EmptyObj]]
    /\ completed = {}
    /\ waveNumber = 0
    /\ readyNodes = << >>
    /\ task = [n \in ids |-> IdleTask]
    /\ nodeResults = EmptyObj
    /\ errors = [n \in {} |-> ""]
    /\ outcome = NoOutcome
    /\ dbFailures = 0
    /\ waveOf = [n \in ids |-> 0]
    /\ collected = NoCollected
    /\ sortedNodes = << >>

(***************************************************************************)
(* The workflows a run is started on                                       *)
(***************************************************************************)
RunIds == <<1, 2, 3, 4>>

\* static data per node type as the editor stores it
RunData(type) ==
    CASE type = "text" -> [k \in {"content"} |-> Str("hi")]
      [] type = "llm"  -> [k \in {"model"} |-> Str("gemini")]
      [] OTHER         -> EmptyObj

RunTypes == {"text", "llm"}

\* the first node, always a root, is a text or an llm node; the other nodes
\* are llm nodes, whose handler may succeed or fail
RunTypeLists(k) == {ty \in [1..k -> RunTypes] : \A i \in 2..k : ty[i] = "llm"}

\* edges between the first k ids, low id to high id, in lexicographic order,
\* plus at most one closing edge back to node 1 or one edge to an absent id
ForwardPairs(k) == {p \in (1..k) \X (1..k) : p[1] < p[2]}

RECURSIVE PairSeq(_)
PairSeq(ps) ==
    IF ps = {} THEN << >>
    ELSE LET m == CHOOSE p \in ps : \A q \in ps : p[1] < q[1] \/ (p[1] = q[1] /\ p[2] <= q[2])
         IN  <<m>> \o PairSeq(ps \ {m})

RunEdge(p) == [source |-> p[1], target |-> p[2],
               sourceHandle |-> "", targetHandle |-> "user_message"]

RunEdgeLists(k) ==
    LET fwd == {PairSeq(ps) : ps \in SUBSET ForwardPairs(k)}
    IN  {[i \in 1..Len(q) |-> RunEdge(q[i])] : q \in fwd}
        \cup {<<RunEdge(<<1, k>>), RunEdge(<<k, 1>>)>>, <<RunEdge(<<1, k + 1>>)>>}

InitRun ==
    /\ \E k \in 1..Len(RunIds) :
          /\ \E ty \in RunTypeLists(k) :
                nodes = [i \in 1..k |-> [id |-> RunIds[i], type |-> ty[i], data |-> RunData(ty[i])]]
          /\ edges \in RunEdgeLists(k)
    /\ pc = "start"
    /\ executionNodes = [n \in {} |-> 0]
    /\ InitCommon

(***************************************************************************)
(* executeWorkflow                                                         *)
(***************************************************************************)
\* a persistence call rejects: allowed while the failure budget lasts
DbMayFail == dbFailures < MaxDbFailures

\* a validation whose verdict is computed and then not acted on
ValidateNoThrow ==
    /\ pc = "start"
    /\ validation' = validateDAG(idSeq, edges)
    /\ pc' = "createRun"
    /\ UNCHANGED <<nodes, edges, workflowRun, nodeRuns, executionNodes, completed,
                   waveNumber, readyNodes, task, nodeResults, errors, outcome,
                   dbFailures, waveOf, collected, sortedNodes>>

\* lines 194-198: validateDAG, throw on an invalid graph
Validate ==
    /\ pc = "start"
    /\ validation' = validateDAG(idSeq, edges)
    /\ IF validation'.valid
       THEN pc' = "createRun" /\ UNCHANGED outcome
       ELSE /\ pc' = "thrown"
            /\ outcome' = [kind |-> "thrown", status |-> "", error |-> validation'.kind]
    /\ UNCHANGED <<nodes, edges, workflowRun, nodeRuns, executionNodes, completed,
                   waveNumber, readyNodes, task, nodeResults, errors, dbFailures,
                   waveOf, collected, sortedNodes>>

\* lines 200-207: prisma.workflowRun.create
CreateRun ==
    /\ pc = "createRun"
    /\ \/ /\ workflowRun' = [status |-> "running", error |-> ""]
          /\ pc' = "createNodeRuns"
          /\ UNCHANGED <<outcome, dbFailures>>
       \/ /\ DbMayFail
          /\ dbFailures' = dbFailures + 1
          /\ pc' = "thrown"
          /\ outcome' = [kind |-> "thrown", status |-> "", error |-> "db"]
          /\ UNCHANGED workflowRun
    /\ UNCHANGED <<nodes, edges, validation, nodeRuns, executionNodes, completed,
                   waveNumber, readyNodes, task, nodeResults, errors, waveOf, collected, sortedNodes>>

\* lines 209-230: the nodeRun.create loop, buildExecutionGraph, topologicalSort.
\* A create that rejects, or a throwing topologicalSort, leaves the function
\* outside the try block.
CreateNodeRuns ==
    /\ pc = "createNodeRuns"
    /\ \/ /\ nodeRuns' = [n \in ids |-> [status |-> "pending", inputs |-> EmptyObj]]
          /\ executionNodes' = buildExecutionGraph(idSeq, edges)
          /\ LET sorted == topologicalSort(idSeq, edges)
             IN  IF sorted.throws
                 THEN /\ pc' = "thrown"
                      /\ outcome' = [kind |-> "thrown", status |-> "", error |-> "toposort"]
                      /\ UNCHANGED sortedNodes
                 ELSE /\ pc' = "loop"
                      /\ sortedNodes' = sorted.sorted
                      /\ UNCHANGED outcome
          /\ UNCHANGED dbFailures
       \/ /\ DbMayFail
          /\ \E j \in 1..Len(nodes) :
                nodeRuns' = [n \in ids |->
                               IF \E i \in 1..(j - 1) : nodes[i].id = n
                               THEN [status |-> "pending", inputs |-> EmptyObj]
                               ELSE nodeRuns[n]]
          /\ dbFailures' = dbFailures + 1
          /\ pc' = "thrown"
          /\ outcome' = [kind |-> "thrown", status |-> "", error |-> "db"]
          /\ UNCHANGED <<executionNodes, sortedNodes>>
    /\ UNCHANGED <<nodes, edges, validation, workflowRun, completed, waveNumber,
                   readyNodes, task, nodeResults, errors, waveOf, collected>>

\* a loop head without the deadlock throw: an empty ready list is awaited
\* like any other wave
WaveStartNoDeadlock ==
    /\ pc = "loop"
    /\ IF Cardinality(completed) < Len(nodes)
       THEN LET ready == getReadyNodes(idSeq, executionNodes)
            IN  /\ waveNumber' = waveNumber + 1
                /\ readyNodes' = ready
                /\ pc' = "await"
                /\ executionNodes' =
                      [n \in DOMAIN executionNodes |->
                         IF n \in Range(ready)
                         THEN [executionNodes[n] EXCEPT !.status = "running"]
                         ELSE executionNodes[n]]
                /\ task' = [n \in ids |->
                              IF n \in Range(ready)
                              THEN [pc |-> "w_running", nodeInputs |-> EmptyObj]
                              ELSE task[n]]
                /\ waveOf' = [n \in ids |->
                                IF n \in Range(ready) THEN waveNumber + 1 ELSE waveOf[n]]
       ELSE /\ pc' = "finalize"
            /\ UNCHANGED <<waveNumber, readyNodes, executionNodes, task, waveOf>>
    /\ UNCHANGED <<nodes, edges, validation, workflowRun, nodeRuns, completed,
                   nodeResults, errors, outcome, dbFailures, collected, sortedNodes>>

\* lines 238-263: the while test, getReadyNodes, the deadlock throw, and the
\* synchronous prefix of every dispatch closure (status = "running" and the
\* call of the first nodeRun.update).
WaveStart ==
    /\ pc = "loop"
    /\ IF Cardinality(completed) < Len(nodes)
       THEN LET ready == getReadyNodes(idSeq, executionNodes)
            IN  /\ waveNumber' = waveNumber + 1
                /\ readyNodes' = ready
                /\ IF ready = << >>
                   THEN /\ pc' = "catch"
                        /\ outcome' = [kind |-> "caught", status |-> "", error |-> "deadlock"]
                        /\ UNCHANGED <<executionNodes, task, waveOf>>
                   ELSE /\ pc' = "await"
                        /\ executionNodes' =
                              [n \in DOMAIN executionNodes |->
                                 IF n \in Range(ready)
                                 THEN [executionNodes[n] EXCEPT !.status = "running"]
                                 ELSE executionNodes[n]]
                        /\ task' = [n \in ids |->
                                      IF n \in Range(ready)
                                      THEN [pc |-> "w_running", nodeInputs |-> EmptyObj]
                                      ELSE task[n]]
                        /\ waveOf' = [n \in ids |->
                                        IF n \in Range(ready) THEN waveNumber + 1 ELSE waveOf[n]]
                        /\ UNCHANGED outcome
       ELSE /\ pc' = "finalize"
            /\ UNCHANGED <<waveNumber, readyNodes, executionNodes, task, waveOf, outcome>>
    /\ UNCHANGED <<nodes, edges, validation, workflowRun, nodeRuns, completed,
                   nodeResults, errors, dbFailures, collected, sortedNodes>>


(***************************************************************************)
(* The dispatch closure of one ready node (lines 253-390).  Each action is *)
(* the code between two awaits; a task keeps stepping after Promise.all    *)
(* has rejected, as an async function does.                                *)
(***************************************************************************)
\* what the Trigger.dev task of a handler-backed node can do in a run
RunOutcomes ==
    {[kind |-> "ok", success |-> TRUE, output |-> Str("out"), error |-> ""],
     [kind |-> "ok", success |-> FALSE, output |-> Undefined, error |-> "boom"],
     [kind |-> "notOk", success |-> FALSE, output |-> Undefined, error |-> "boom"],
     [kind |-> "throws", success |-> FALSE, output |-> Undefined, error |-> "boom"]}

PassThrough == {"text", "image", "video"}

\* a catch block that fails every node of the wave, not only its own
EnterCatchWave(n) ==
    /\ executionNodes' = [m \in DOMAIN executionNodes |->
                             IF m \in Range(readyNodes)
                             THEN [executionNodes[m] EXCEPT !.status = "failed", !.error = "db"]
                             ELSE executionNodes[m]]
    /\ errors' = Put(errors, n, "db")
    /\ task' = [task EXCEPT ![n].pc = "w_catch"]
    /\ dbFailures' = dbFailures + 1

\* lines 372-385: the catch block up to its await
EnterCatch(n) ==
    /\ executionNodes' = [executionNodes EXCEPT ![n].status = "failed",
                                                ![n].error = "db"]
    /\ errors' = Put(errors, n, "db")
    /\ task' = [task EXCEPT ![n].pc = "w_catch"]
    /\ dbFailures' = dbFailures + 1

\* lines 260-324: the "running" update resolved; collect and merge the
\* inputs and call the inputs update
RunningWritten(n) ==
    /\ task[n].pc = "w_running"
    /\ \/ /\ nodeRuns' = [nodeRuns EXCEPT ![n].status = "running"]
          /\ LET inputs == collectNodeInputs(n, executionNodes, edges, NodeOf(n).type)
             IN  task' = [task EXCEPT ![n] =
                            [pc |-> "w_inputs",
                             nodeInputs |-> mergeNodeInputs(NodeOf(n).type, NodeOf(n).data, inputs)]]
          /\ UNCHANGED <<executionNodes, errors, dbFailures>>
       \/ /\ DbMayFail
          /\ EnterCatch(n)
          /\ UNCHANGED nodeRuns
    /\ UNCHANGED <<nodes, edges, pc, validation, workflowRun, completed, waveNumber,
                   readyNodes, nodeResults, outcome, waveOf, collected, sortedNodes>>

\* lines 321-332: the inputs update resolved; call executeNode
InputsWritten(n) ==
    /\ task[n].pc = "w_inputs"
    /\ \/ /\ nodeRuns' = [nodeRuns EXCEPT ![n].inputs = task[n].nodeInputs]
          /\ task' = [task EXCEPT ![n].pc = "exec"]
          /\ UNCHANGED <<executionNodes, errors, dbFailures>>
       \/ /\ DbMayFail
          /\ EnterCatch(n)
          /\ UNCHANGED nodeRuns
    /\ UNCHANGED <<nodes, edges, pc, validation, workflowRun, completed, waveNumber,
                   readyNodes, nodeResults, outcome, waveOf, collected, sortedNodes>>

\* lines 327-366: executeNode settled; record the result on the
\* ExecutionNode and call the final update
NodeExecuted(n) ==
    /\ task[n].pc = "exec"
    /\ \E ext \in IF NodeOf(n).type \in PassThrough
                  THEN {[kind |-> "none", success |-> TRUE, output |-> Undefined, error |-> ""]}
                  ELSE RunOutcomes :
          LET taskResult == executeNode(NodeOf(n).type, task[n].nodeInputs, ext)
          IN  IF taskResult.threw
              THEN \* lines 372-385: the await rejected, the catch block runs
                   /\ executionNodes' = [executionNodes EXCEPT ![n].status = "failed",
                                                               ![n].error = taskResult.error]
                   /\ errors' = Put(errors, n, IF taskResult.error # ""
                                               THEN taskResult.error ELSE "Unknown error")
                   /\ task' = [task EXCEPT ![n].pc = "w_catch"]
                   /\ UNCHANGED nodeResults
              ELSE IF taskResult.success
              THEN /\ executionNodes' = [executionNodes EXCEPT ![n].status = "completed",
                                                               ![n].output = taskResult.output]
                   /\ nodeResults' = Put(nodeResults, n, taskResult.output)
                   /\ task' = [task EXCEPT ![n].pc = "w_completed"]
                   /\ UNCHANGED errors
              ELSE /\ executionNodes' = [executionNodes EXCEPT ![n].status = "failed",
                                                               ![n].error = taskResult.error]
                   /\ errors' = Put(errors, n, IF taskResult.error # ""
                                               THEN taskResult.error ELSE "Unknown error")
                   /\ task' = [task EXCEPT ![n].pc = "w_failed"]
                   /\ UNCHANGED nodeResults
    /\ UNCHANGED <<nodes, edges, pc, validation, workflowRun, nodeRuns, completed,
                   waveNumber, readyNodes, outcome, dbFailures, waveOf, collected, sortedNodes>>

\* lines 340-371: the final update resolved (completed.add) or rejected
ResultWritten(n) ==
    /\ task[n].pc \in {"w_completed", "w_failed"}
    /\ \/ /\ nodeRuns' = [nodeRuns EXCEPT ![n].status =
                            IF task[n].pc = "w_completed" THEN "completed" ELSE "failed"]
          /\ completed' = completed \cup {n}
          /\ task' = [task EXCEPT ![n].pc = "settled"]
          /\ UNCHANGED <<executionNodes, errors, dbFailures>>
       \/ /\ DbMayFail
          /\ EnterCatch(n)
          /\ UNCHANGED <<nodeRuns, completed>>
    /\ UNCHANGED <<nodes, edges, pc, validation, workflowRun, waveNumber,
                   readyNodes, nodeResults, outcome, waveOf, collected, sortedNodes>>

\* lines 378-389: the update of the catch block resolved (completed.add) or
\* rejected, which rejects the closure's promise
CatchWritten(n) ==
    /\ task[n].pc = "w_catch"
    /\ \/ /\ nodeRuns' = [nodeRuns EXCEPT ![n].status = "failed"]
          /\ completed' = completed \cup {n}
          /\ task' = [task EXCEPT ![n].pc = "settled"]
          /\ UNCHANGED dbFailures
       \/ /\ DbMayFail
          /\ dbFailures' = dbFailures + 1
          /\ task' = [task EXCEPT ![n].pc = "rejected"]
          /\ UNCHANGED <<nodeRuns, completed>>
    /\ UNCHANGED <<nodes, edges, pc, validation, workflowRun, executionNodes, waveNumber,
                   readyNodes, nodeResults, errors, outcome, waveOf, collected, sortedNodes>>

\* line 393: await Promise.all(executionPromises): resumes the loop when
\* every closure of the wave has resolved, throws into the outer catch as
\* soon as one has rejected
PromiseAll(settle) ==
    /\ pc = "await"
    /\ IF \E n \in Range(readyNodes) : task[n].pc = "rejected"
       THEN /\ pc' = "catch"
            /\ outcome' = [kind |-> "caught", status |-> "", error |-> "db"]
       ELSE /\ settle
            /\ pc' = "loop"
            /\ UNCHANGED outcome
    /\ UNCHANGED <<nodes, edges, validation, workflowRun, nodeRuns, executionNodes,
                   completed, waveNumber, readyNodes, task, nodeResults, errors,
                   dbFailures, waveOf, collected, sortedNodes>>

\* the barrier replaced by a wait for the first node of the ready list only
WaveJoinFirst == PromiseAll(task[readyNodes[1]].pc = "settled")

\* the barrier replaced by a race: the loop resumes once any closure settled
WaveJoinRace == PromiseAll(\E n \in Range(readyNodes) : task[n].pc = "settled")

WaveJoin == PromiseAll(\A n \in Range(readyNodes) : task[n].pc = "settled")

\* a run-level status that is failed only when no node produced a result
FinalizeByResults ==
    /\ pc = "finalize"
    /\ LET hasErrors == DOMAIN nodeResults = {}
           status == IF hasErrors THEN "failed" ELSE "completed"
       IN  \/ /\ workflowRun' = [status |-> status,
                                 error |-> IF hasErrors THEN "joined" ELSE ""]
              /\ pc' = "returned"
              /\ outcome' = [kind |-> "returned", status |-> status, error |-> ""]
              /\ UNCHANGED dbFailures
           \/ /\ DbMayFail
              /\ dbFailures' = dbFailures + 1
              /\ pc' = "catch"
              /\ outcome' = [kind |-> "caught", status |-> "", error |-> "db"]
              /\ UNCHANGED workflowRun
    /\ UNCHANGED <<nodes, edges, validation, nodeRuns, executionNodes, completed,
                   waveNumber, readyNodes, task, nodeResults, errors, waveOf, collected, sortedNodes>>

\* lines 398-416: the run-level update after the loop and the return; the
\* update is inside the try block
Finalize ==
    /\ pc = "finalize"
    /\ LET hasErrors == DOMAIN errors # {}
           status == IF hasErrors THEN "failed" ELSE "completed"
       IN  \/ /\ workflowRun' = [status |-> status,
                                 error |-> IF hasErrors THEN "joined" ELSE ""]
              /\ pc' = "returned"
              /\ outcome' = [kind |-> "returned", status |-> status, error |-> ""]
              /\ UNCHANGED dbFailures
           \/ /\ DbMayFail
              /\ dbFailures' = dbFailures + 1
              /\ pc' = "catch"
              /\ outcome' = [kind |-> "caught", status |-> "", error |-> "db"]
              /\ UNCHANGED workflowRun
    /\ UNCHANGED <<nodes, edges, validation, nodeRuns, executionNodes, completed,
                   waveNumber, readyNodes, task, nodeResults, errors, waveOf, collected, sortedNodes>>

\* lines 417-429: the outer catch marks the run failed and rethrows
CatchRun ==
    /\ pc = "catch"
    /\ \/ /\ workflowRun' = [status |-> "failed", error |-> outcome.error]
          /\ outcome' = [outcome EXCEPT !.kind = "thrown"]
          /\ UNCHANGED dbFailures
       \/ /\ DbMayFail
          /\ dbFailures' = dbFailures + 1
          /\ outcome' = [kind |-> "thrown", status |-> "", error |-> "db"]
          /\ UNCHANGED workflowRun
    /\ pc' = "thrown"
    /\ UNCHANGED <<nodes, edges, validation, nodeRuns, executionNodes, completed,
                   waveNumber, readyNodes, task, nodeResults, errors, waveOf, collected, sortedNodes>>

Next ==
    \/ Validate
    \/ CreateRun
    \/ CreateNodeRuns
    \/ WaveStart
    \/ \E n \in ids : RunningWritten(n)
    \/ \E n \in ids : InputsWritten(n)
    \/ \E n \in ids : NodeExecuted(n)
    \/ \E n \in ids : ResultWritten(n)
    \/ \E n \in ids : CatchWritten(n)
    \/ WaveJoin
    \/ Finalize
    \/ CatchRun

Spec == InitRun /\ [][Next]_vars

(***************************************************************************)
(* app/api/workflows/[id]/execute/route.ts: POST, from the call of         *)
(* executeWorkflow on (lines 31-45).  The response is a function of what   *)
(* executeWorkflow returned or threw: [http, success, hasRunId, status,    *)
(* errors, error]; errors is the list of [nodeId, message] entries, absent *)
(* (hasErrors = FALSE) when the map is empty.                              *)
(***************************************************************************)
POST ==
    IF outcome.kind = "returned"
    THEN [http      |-> 200,
          success   |-> outcome.status = "completed",
          hasRunId  |-> TRUE,
          status    |-> outcome.status,
          hasErrors |-> DOMAIN errors # {},
          errors    |-> errors,
          error     |-> ""]
    ELSE [http      |-> 500,
          success   |-> FALSE,
          hasRunId  |-> FALSE,
          status    |-> "",
          hasErrors |-> FALSE,
          errors    |-> [n \in {} |-> ""],
          error     |-> IF outcome.error # "" THEN outcome.error
                        ELSE "Workflow execution failed"]

(***************************************************************************)
(* SpecFeed: executeWorkflow on the two-node workflow in which a text node *)
(* with content "hi" feeds, over the handle "input", a node of a type      *)
(* without routing chain in collectNodeInputs: a pass-through type or a    *)
(* type executeNode does not know.                                         *)
(***************************************************************************)
FeedTypes == {"text", "image", "video", "echo"}

InitFeed ==
    /\ \E ty \in FeedTypes, d \in {EmptyObj, [k \in {"label"} |-> Str("typed")]} :
          nodes = <<[id |-> 1, type |-> "text", data |-> RunData("text")],
                    [id |-> 2, type |-> ty, data |-> d]>>
    /\ \E sh \in {"", "output"} :
          edges = <<[source |-> 1, target |-> 2, sourceHandle |-> sh, targetHandle |-> "input"]>>
    /\ pc = "start"
    /\ executionNodes = [n \in {} |-> 0]
    /\ InitCommon

SpecFeed == InitFeed /\ [][Next]_vars

(***************************************************************************)
(* SpecLoop: the run loop (lines 232-429) started on a hand-built          *)
(* execution map of up to MaxLoopNodes nodes.  Each node depends on any    *)
(* set of ids among the nodes and one id that is no node, so the maps      *)
(* include self-dependencies, dependency cycles and dependencies on a node *)
(* that does not exist, next to every map buildExecutionGraph can build.   *)
(***************************************************************************)
RECURSIVE SortedSeq(_)
SortedSeq(S) ==
    IF S = {} THEN << >>
    ELSE LET m == CHOOSE x \in S : \A y \in S : x <= y
         IN  <<m>> \o SortedSeq(S \ {m})

InitLoop ==
    /\ \E k \in 1..MaxLoopNodes :
          /\ nodes = [i \in 1..k |-> [id |-> i, type |-> "llm", data |-> RunData("llm")]]
          /\ \E deps \in [1..k -> SUBSET (1..(k + 1))] :
                /\ executionNodes =
                      [n \in 1..k |->
                         [status       |-> "pending",
                          dependencies |-> SortedSeq(deps[n]),
                          dependents   |-> SortedSeq({m \in 1..k : n \in deps[m]}),
                          output       |-> Undefined,
                          error        |-> ""]]
                /\ LET q == PairSeq({p \in (1..(k + 1)) \X (1..k) : p[1] \in deps[p[2]]})
                   IN  edges = [i \in 1..Len(q) |-> RunEdge(q[i])]
    /\ pc = "loop"
    /\ validation = [valid |-> TRUE, kind |-> "ok", path |-> << >>, ref |-> 0]
    /\ workflowRun = [status |-> "running", error |-> ""]
    /\ nodeRuns = [n \in ids |-> [status |-> "pending", inputs |-> EmptyObj]]
    /\ completed = {}
    /\ waveNumber = 0
    /\ readyNodes = << >>
    /\ task = [n \in ids |-> IdleTask]
    /\ nodeResults = EmptyObj
    /\ errors = [n \in {} |-> ""]
    /\ outcome = NoOutcome
    /\ dbFailures = 0
    /\ waveOf = [n \in ids |-> 0]
    /\ collected = NoCollected
    /\ sortedNodes = << >>

NextLoop ==
    \/ WaveStart
    \/ \E n \in ids : RunningWritten(n)
    \/ \E n \in ids : InputsWritten(n)
    \/ \E n \in ids : NodeExecuted(n)
    \/ \E n \in ids : ResultWritten(n)
    \/ \E n \in ids : CatchWritten(n)
    \/ WaveJoin
    \/ Finalize
    \/ CatchRun

SpecLoop == InitLoop /\ [][NextLoop]_vars


(***************************************************************************)
(* SpecGraph: validateDAG on every graph of up to MaxGraphNodes nodes and  *)
(* MaxGraphEdges edges.  The node list is 1..k; by renaming this covers    *)
(* every order of the node list.                                           *)
(***************************************************************************)
GraphPairs == (1..MaxGraphNodes) \X (1..MaxGraphNodes)

GraphEdges ==
    {[source |-> p[1], target |-> p[2], sourceHandle |-> "", targetHandle |-> ""] :
        p \in GraphPairs}

InitGraph ==
    /\ \E k \in 1..MaxGraphNodes :
          nodes = [i \in 1..k |-> [id |-> i, type |-> "text", data |-> EmptyObj]]
    /\ \E m \in 0..MaxGraphEdges : edges \in [1..m -> GraphEdges]
    /\ pc = "start"
    /\ executionNodes = [n \in {} |-> 0]
    /\ InitCommon

SpecGraph == InitGraph /\ [][Validate]_vars

(***************************************************************************)
(* SpecBuild: buildExecutionGraph on the graphs of SpecGraph, which        *)
(* include repeated edges, self-loops, cycles and dangling edges.          *)
(***************************************************************************)
\* line 224: const executionNodes = buildExecutionGraph(nodes, edges)
BuildGraph ==
    /\ pc = "start"
    /\ executionNodes' = buildExecutionGraph(idSeq, edges)
    /\ pc' = "built"
    /\ UNCHANGED <<nodes, edges, validation, workflowRun, nodeRuns, completed,
                   waveNumber, readyNodes, task, nodeResults, errors, outcome,
                   dbFailures, waveOf, collected, sortedNodes>>

SpecBuild == InitGraph /\ [][BuildGraph]_vars

(***************************************************************************)
(* SpecSort: topologicalSort on the graphs of SpecGraph.                   *)
(***************************************************************************)
\* line 227: const sortedNodes = topologicalSort(nodes, edges); its throw
\* leaves executeWorkflow
SortGraph ==
    /\ pc = "start"
    /\ LET sorted == topologicalSort(idSeq, edges)
       IN  IF sorted.throws
           THEN /\ pc' = "thrown"
                /\ outcome' = [kind |-> "thrown", status |-> "", error |-> "toposort"]
                /\ UNCHANGED sortedNodes
           ELSE /\ pc' = "sorted"
                /\ sortedNodes' = sorted.sorted
                /\ UNCHANGED outcome
    /\ UNCHANGED <<nodes, edges, validation, workflowRun, nodeRuns, executionNodes,
                   completed, waveNumber, readyNodes, task, nodeResults, errors,
                   dbFailures, waveOf, collected>>

SpecSort == InitGraph /\ [][SortGraph]_vars

(***************************************************************************)
(* SpecInputs: collectNodeInputs and the merge for node 3, fed by nodes 1  *)
(* and 2 over one edge each.                                               *)
(***************************************************************************)
InputTypes == {"llm", "crop", "extractFrame", "echo"}

InputHandles == {"", "system_prompt", "user_message", "images-0", "images-1",
                 "x_percent", "width_percent", "timestamp", "foo"}

InputSourceHandles == {"", "image-output"}

InputValues == {Str("hi"), Str(""), Str("0")}

InputStatuses == {"pending", "running", "completed", "failed"}

\* static configuration typed into the node
StaticData ==
    [k \in {"foo", "xPercent", "widthPercent", "timestamp", "systemPrompt", "userMessage"} |->
        CASE k = "foo" -> Num(1)
          [] k = "xPercent" -> Num(50)
          [] k = "widthPercent" -> Num(80)
          [] k = "timestamp" -> Str("5")
          [] k = "systemPrompt" -> Str("typed system")
          [] OTHER -> Str("typed message")]

InputData == {EmptyObj, StaticData}

InitInputs ==
    /\ \E ty \in InputTypes, d \in InputData :
          nodes = <<[id |-> 1, type |-> "text", data |-> EmptyObj],
                    [id |-> 2, type |-> "text", data |-> EmptyObj],
                    [id |-> 3, type |-> ty, data |-> d]>>
    /\ \E h1 \in InputHandles, h2 \in InputHandles, sh \in InputSourceHandles :
          edges = <<[source |-> 1, target |-> 3, sourceHandle |-> sh, targetHandle |-> h1],
                    [source |-> 2, target |-> 3, sourceHandle |-> "", targetHandle |-> h2]>>
    /\ \E s1 \in InputStatuses, v1 \in InputValues, v2 \in InputValues :
          executionNodes =
              [n \in 1..3 |->
                 [status       |-> CASE n = 1 -> s1 [] n = 2 -> "completed" [] OTHER -> "running",
                  dependencies |-> IF n = 3 THEN <<1, 2>> ELSE << >>,
                  dependents   |-> IF n = 3 THEN << >> ELSE <<3>>,
                  output       |-> CASE n = 1 -> v1 [] n = 2 -> v2 [] OTHER -> Undefined,
                  error        |-> ""]]
    /\ pc = "collect"
    /\ InitCommon

\* lines 266-318 of executeWorkflow for node 3
CollectInputs ==
    /\ pc = "collect"
    /\ LET inputs == collectNodeInputs(3, executionNodes, edges, NodeOf(3).type)
       IN  collected' = [collected EXCEPT
                            !.inputs = inputs,
                            !.nodeInputs = mergeNodeInputs(NodeOf(3).type, NodeOf(3).data, inputs)]
    /\ pc' = "collected"
    /\ UNCHANGED <<nodes, edges, validation, workflowRun, nodeRuns, executionNodes,
                   completed, waveNumber, readyNodes, task, nodeResults, errors,
                   outcome, dbFailures, waveOf, sortedNodes>>

SpecInputs == InitInputs /\ [][CollectInputs]_vars

(***************************************************************************)
(* SpecNode: executeNode on one node of every type, with every input       *)
(* object and every behaviour of the Trigger.dev task below.               *)
(***************************************************************************)
NodeTypes == {"text", "image", "video", "llm", "crop", "extractFrame", "echo"}

TaskTypes == {"llm", "crop", "extractFrame"}

NodeInputs ==
    {EmptyObj,
     [k \in {"content"} |-> Str("hi")],
     [k \in {"content"} |-> Str("")],
     [k \in {"imageUrl"} |-> Str("hi")],
     [k \in {"imageBase64"} |-> Str("hi")],
     [k \in {"videoUrl"} |-> Str("hi")]}

ExtOutcomes ==
    {[kind |-> "ok", success |-> TRUE, output |-> Str("out"), error |-> ""],
     [kind |-> "ok", success |-> FALSE, output |-> Undefined, error |-> "boom"],
     [kind |-> "okNoOutput", success |-> FALSE, output |-> Undefined, error |-> ""],
     [kind |-> "notOk", success |-> FALSE, output |-> Undefined, error |-> "boom"],
     [kind |-> "notOk", success |-> FALSE, output |-> Undefined, error |-> ""],
     [kind |-> "throws", success |-> FALSE, output |-> Undefined, error |-> "boom"],
     [kind |-> "throws", success |-> FALSE, output |-> Undefined, error |-> ""]}

InitNode ==
    /\ \E ty \in NodeTypes : nodes = <<[id |-> 1, type |-> ty, data |-> EmptyObj]>>
    /\ edges = << >>
    /\ executionNodes = [n \in {} |-> 0]
    /\ pc = "execute"
    /\ InitCommon

\* line 327: await executeNode(nodeId, nodeType, nodeInputs, workflowRunId)
ExecuteNode ==
    /\ pc = "execute"
    /\ \E inputs \in NodeInputs :
       \E ext \in IF NodeOf(1).type \in TaskTypes THEN ExtOutcomes ELSE {NoCollected.ext} :
          collected' = [collected EXCEPT
                           !.nodeInputs = inputs,
                           !.ext = ext,
                           !.result = executeNode(NodeOf(1).type, inputs, ext)]
    /\ pc' = "executed"
    /\ UNCHANGED <<nodes, edges, validation, workflowRun, nodeRuns, executionNodes,
                   completed, waveNumber, readyNodes, task, nodeResults, errors,
                   outcome, dbFailures, waveOf, sortedNodes>>

SpecNode == InitNode /\ [][ExecuteNode]_vars


(***************************************************************************)
(* Graph notions used by the properties                                    *)
(***************************************************************************)
\* the edges between nodes of the node list, as pairs
NodeEdges ==
    {p \in ids \X ids : \E i \in 1..Len(edges) : edges[i].source = p[1] /\ edges[i].target = p[2]}

Successors(S) == {p[2] : p \in {q \in NodeEdges : q[1] \in S}}

RECURSIVE Closure(_)
Closure(S) == LET T == S \cup Successors(S) IN IF T = S THEN S ELSE Closure(T)

\* the nodes reachable from n over at least one edge
ReachableFrom(n) == Closure(Successors({n}))

GraphHasCycle == \E n \in ids : n \in ReachableFrom(n)

NoDanglingEdge ==
    \A i \in 1..Len(edges) : edges[i].source \in ids /\ edges[i].target \in ids

SetMax(S) == CHOOSE x \in S : \A y \in S : y <= x

\* the number of nodes on the longest chain of upstream dependencies of n
RECURSIVE Depth(_)
Depth(n) ==
    LET preds == {p[1] : p \in {q \in NodeEdges : q[2] = n}}
    IN  IF preds = {} THEN 0 ELSE 1 + SetMax({Depth(p) : p \in preds})

Terminal(st) == st \in {"completed", "failed"}

StatusOf(n) == executionNodes[n].status

Built == DOMAIN executionNodes # {}

NoFailedNode == \A n \in DOMAIN executionNodes : StatusOf(n) # "failed"

\* the diamond 1 -> {2, 3} -> 4
IsDiamond ==
    /\ Len(nodes) = 4
    /\ NodeEdges = {<<1, 2>>, <<1, 3>>, <<2, 4>>, <<3, 4>>}

\* executeWorkflow has returned or thrown
RunOver == pc \in {"returned", "thrown"}

(***************************************************************************)
(* Properties                                                              *)
(***************************************************************************)
\* C1: every wave dispatches exactly the pending nodes whose dependencies
\* are all terminal (completed or failed); stated for the runs in which no
\* persistence call has failed.
C1_ReadyIsPendingWithTerminalDeps ==
    [][(pc = "loop" /\ Cardinality(completed) < Len(nodes) /\ dbFailures = 0) =>
          Range(readyNodes') =
             {n \in ids : /\ StatusOf(n) = "pending"
                          /\ \A k \in 1..Len(executionNodes[n].dependencies) :
                                Terminal(StatusOf(executionNodes[n].dependencies[k]))}]_vars

\* C2: in the diamond, when the handlers of 1 and 3 succeed and the handler
\* of 2 fails (no persistence failure), the run ends with 4 dispatched in
\* wave 3 and terminal, and with 1 and 3 completed.
C2_DiamondFailureContained ==
    (/\ IsDiamond
     /\ RunOver
     /\ dbFailures = 0
     /\ {1, 3} \subseteq DOMAIN nodeResults
     /\ 2 \in DOMAIN errors)
    => /\ waveOf[4] = 3
       /\ Terminal(StatusOf(4))
       /\ StatusOf(1) = "completed"
       /\ StatusOf(3) = "completed"

\* C3: on a validated graph executeWorkflow never raises the deadlock error,
\* whatever the handlers return (stated for the runs in which no persistence
\* call has failed).
C3_NoDeadlockOnValidGraph ==
    (validation.valid /\ dbFailures = 0) => outcome.error # "deadlock"

\* C4: an ExecutionNode that is completed or failed keeps its status.
C4_TerminalIsFinal ==
    [][\A n \in DOMAIN executionNodes :
          Terminal(StatusOf(n)) => executionNodes'[n].status = StatusOf(n)]_vars

\* C5: whenever the loop is about to compute a ready set, every node
\* dispatched by an earlier wave is completed or failed and none is running.
C5_WavesDoNotOverlap ==
    pc = "loop" =>
       \A n \in ids : /\ StatusOf(n) # "running"
                      /\ waveOf[n] > 0 => Terminal(StatusOf(n))

\* C5 witness: a wave of two nodes has been joined.
C5_Witness ==
    /\ pc = "loop"
    /\ waveNumber = 1
    /\ Len(readyNodes) = 2
    /\ \A n \in Range(readyNodes) : Terminal(StatusOf(n))

\* C6: while no node has failed, wave k is exactly the set of nodes whose
\* longest upstream chain has k-1 nodes, and a run that returns took one
\* wave per level.
C6_WavesAreLevels ==
    (validation.valid /\ waveNumber >= 1 /\ NoFailedNode) =>
       /\ Range(readyNodes) = {n \in ids : Depth(n) = waveNumber - 1}
       /\ \A n \in ids :
             waveOf[n] = IF Depth(n) < waveNumber THEN Depth(n) + 1 ELSE 0
       /\ pc = "returned" => waveNumber = 1 + SetMax({Depth(n) : n \in ids})

\* C6 witness: the diamond returned completed after the waves {1}, {2,3}, {4}.
C6_Witness ==
    /\ IsDiamond
    /\ pc = "returned"
    /\ outcome.status = "completed"
    /\ waveOf = <<1, 2, 2, 3>>
    /\ waveNumber = 3

\* does the object hold v, as a field or as an entry of an array field
Holds(obj, v) ==
    \E k \in DOMAIN obj : obj[k] = v \/ (obj[k].kind = "array" /\ v \in Range(obj[k].l))

\* C7: when both upstream nodes are completed, the collected inputs hold
\* the output of each of them.
C7_CollectsEveryCompletedSource ==
    (/\ pc = "collected"
     /\ StatusOf(1) = "completed"
     /\ StatusOf(2) = "completed")
    => /\ Holds(collected.inputs, executionNodes[1].output)
       /\ Holds(collected.inputs, executionNodes[2].output)

\* C8: a field supplied by a connection has the connected value in the
\* inputs given to the handler.
C8_ConnectionOverridesStatic ==
    pc = "collected" =>
       \A f \in DOMAIN collected.inputs : collected.nodeInputs[f] = collected.inputs[f]

\* is q a cycle of the graph: closed, and each step an edge
IsCyclePath(q) ==
    /\ Len(q) >= 2
    /\ q[1] = q[Len(q)]
    /\ \A i \in 1..(Len(q) - 1) :
          \E j \in 1..Len(edges) : edges[j].source = q[i] /\ edges[j].target = q[i + 1]

NoSelfLoop == \A i \in 1..Len(edges) : edges[i].source # edges[i].target

\* C9: a graph with a cycle among its nodes is rejected with a cycle error
\* whose path is a cycle of the graph (stated for the graphs whose edges all
\* join two different existing nodes, so that the cycle has at least two
\* nodes and the path can only run over nodes).
C9_CycleReportedWithValidPath ==
    (pc # "start" /\ GraphHasCycle /\ NoDanglingEdge /\ NoSelfLoop) =>
       /\ validation.kind = "cycle"
       /\ IsCyclePath(validation.path)

\* C10: an acyclic graph without dangling edges is accepted.
C10_AcyclicAccepted ==
    (pc # "start" /\ ~GraphHasCycle /\ NoDanglingEdge) =>
       /\ validation.valid
       /\ ~detectCycles(idSeq, edges).found

\* C10 witness: an accepted graph in which node 3 is reached over two paths.
C10_Witness ==
    /\ pc # "start"
    /\ validation.valid
    /\ Len(nodes) = 3
    /\ NodeEdges = {<<1, 2>>, <<2, 3>>, <<1, 3>>}

(***************************************************************************)
(* Validation and its place in executeWorkflow                             *)
(***************************************************************************)
\* the positions of the edges with an endpoint outside the node list
DanglingAt == {i \in 1..Len(edges) : edges[i].source \notin ids \/ edges[i].target \notin ids}

\* C11: validation rejects every graph in which some edge has a source or a
\* target that is not a node id, wherever that edge stands in the edge list
\* and whatever the other edges are.
C11_DanglingEdgeRejected ==
    (pc # "start" /\ DanglingAt # {}) =>
        /\ ~validation.valid
        /\ validation.kind \in {"cycle", "dangling"}
        /\ pc = "thrown"

\* a graph rejected for an edge that is not the first one and whose source
\* is a node, after an edge between nodes
C11_Witness ==
    /\ pc = "thrown"
    /\ validation.kind = "dangling"
    /\ Len(edges) >= 2
    /\ 1 \notin DanglingAt
    /\ \E i \in DanglingAt : edges[i].source \in ids

\* nothing of a run exists: no record, no ExecutionNode, no dispatched handler
NothingStarted ==
    /\ workflowRun.status = "none"
    /\ \A n \in ids : nodeRuns[n].status = "none" /\ task[n] = IdleTask /\ waveOf[n] = 0
    /\ DOMAIN executionNodes = {}
    /\ completed = {} /\ waveNumber = 0 /\ readyNodes = << >>
    /\ nodeResults = EmptyObj /\ DOMAIN errors = {}
    /\ dbFailures = 0

\* C12: when validation fails, for a cycle or for a dangling edge,
\* executeWorkflow throws before it creates a WorkflowRun or NodeRun record,
\* builds an ExecutionNode or invokes a handler: a rejected graph leaves no
\* trace of a run.
C12_InvalidGraphLeavesNoTrace ==
    (pc # "start" /\ ~validation.valid) =>
        /\ pc = "thrown"
        /\ outcome.kind = "thrown"
        /\ outcome.error = validation.kind
        /\ NothingStarted

\* a graph rejected for its cycle; the dangling-edge rejection is the other
\* invalid graph of the run family
C12_Witness ==
    /\ pc = "thrown"
    /\ validation.kind = "cycle"
    /\ outcome.error = "cycle"

(***************************************************************************)
(* The run loop on any execution map                                       *)
(***************************************************************************)
TerminalNodes == {n \in ids : Terminal(StatusOf(n))}

\* some node depends on an id that is no node
HasMissingDependency ==
    \E n \in DOMAIN executionNodes :
        \E k \in 1..Len(executionNodes[n].dependencies) :
            executionNodes[n].dependencies[k] \notin DOMAIN executionNodes

\* C13: the run loop terminates on every execution map, a map with a
\* dependency on a nonexistent id included.  Every completed iteration has
\* dispatched at least one node and left it terminal, so the loop body runs
\* at most once per node plus once for the deadlock throw; the deadlock
\* error is raised exactly with an empty ready list while some node is not
\* terminal; and the loop is left normally only with every node terminal.
C13_LoopTerminates ==
    /\ waveNumber <= Len(nodes) + 1
    /\ pc = "loop" =>
          \A w \in 1..waveNumber : \E n \in TerminalNodes : waveOf[n] = w
    /\ pc = "await" => readyNodes # << >>
    /\ outcome.error = "deadlock" =>
          readyNodes = << >> /\ TerminalNodes # ids
    /\ pc \in {"finalize", "returned"} => TerminalNodes = ids

\* a map with a missing dependency: one wave made progress, the next
\* iteration raised the deadlock error and the function threw
C13_Witness ==
    /\ HasMissingDependency
    /\ pc = "thrown"
    /\ outcome.error = "deadlock"
    /\ waveNumber = 2
    /\ TerminalNodes # {}

(***************************************************************************)
(* The outcome of a run                                                    *)
(***************************************************************************)
FailedNodes == {n \in ids : StatusOf(n) = "failed"}

\* C14: when executeWorkflow returns, the returned status and the status of
\* the WorkflowRun record are the same: failed if at least one ExecutionNode
\* is failed, completed otherwise; and the errors map has an entry for
\* exactly the failed nodes.
C14_ReturnedStatusMatchesNodes ==
    pc = "returned" =>
        /\ outcome.kind = "returned"
        /\ outcome.status = (IF FailedNodes # {} THEN "failed" ELSE "completed")
        /\ workflowRun.status = outcome.status
        /\ DOMAIN errors = FailedNodes

\* a run that returned failed with one node failed and another completed
C14_Witness ==
    /\ pc = "returned"
    /\ outcome.status = "failed"
    /\ workflowRun.status = "failed"
    /\ \E n \in ids, m \in ids : StatusOf(n) = "failed" /\ StatusOf(m) = "completed"

(***************************************************************************)
(* executeNode                                                             *)
(***************************************************************************)
\* the task did not deliver a successful result
TaskFailed(ext) == ext.kind \in {"okNoOutput", "notOk", "throws"} \/ ~ext.success

\* C15: executeNode never throws: for every node type, an unknown one
\* included, and every way the external task can fail or throw, it returns
\* a result with success = false and an error message; and a task that
\* throws gives the scheduler the same result as a task that reports a
\* failure with the same message.
C15_ExecuteNodeNeverThrows ==
    pc = "executed" =>
        LET ty == NodeOf(1).type
            ext == collected.ext
            r == collected.result
        IN  /\ ~r.threw
            /\ (ty \notin PassThrough /\ (ty \notin TaskTypes \/ TaskFailed(ext))) =>
                   ~r.success /\ r.error # ""
            /\ (ty \in TaskTypes /\ ext.kind = "throws" /\ ext.error # "") =>
                   r = executeNode(ty, collected.nodeInputs,
                                   [kind |-> "ok", success |-> FALSE,
                                    output |-> Undefined, error |-> ext.error])

\* a crop task that rejected, turned into a failure result
C15_Witness ==
    /\ pc = "executed"
    /\ NodeOf(1).type = "crop"
    /\ collected.ext.kind = "throws"
    /\ ~collected.result.threw
    /\ ~collected.result.success
    /\ collected.result.error = "boom"

\* C16: every run that was created (its WorkflowRun record written with
\* status running) has that record written completed or failed before
\* executeWorkflow returns or throws; on no path is it left running.
C16_RunNeverLeftRunning ==
    (pc \in {"returned", "thrown"} /\ workflowRun.status # "none") =>
        workflowRun.status \in {"completed", "failed"}

(***************************************************************************)
(* Input collection                                                        *)
(***************************************************************************)
\* the values one edge can store for an output: the output itself, the
\* output as the single entry of the images list, or its crop percentage
DeliveredFrom(out) ==
    {out, List(<<out>>), OrElse(parseFloat(out), Num(0)), OrElse(parseFloat(out), Num(100))}

\* C17: collectNodeInputs takes values only from incoming edges whose source
\* has status completed.  With source 1 pending, running or failed, the
\* collected object holds at most the one key fed by source 2, with a value
\* delivered from the output of source 2: the edge from source 1 adds no
\* key, neither with a value nor with undefined.
C17_OnlyCompletedSourcesCollected ==
    (pc = "collected" /\ StatusOf(1) # "completed") =>
        /\ Cardinality(DOMAIN collected.inputs) <= 1
        /\ \A k \in DOMAIN collected.inputs :
               /\ collected.inputs[k] # Undefined
               /\ collected.inputs[k] \in DeliveredFrom(executionNodes[2].output)

\* a failed source holding an output, wired to a pass-through handle of a
\* node of another type: only the key of the completed source is collected
C17_Witness ==
    /\ pc = "collected"
    /\ NodeOf(3).type = "echo"
    /\ StatusOf(1) = "failed"
    /\ executionNodes[1].output = Str("hi")
    /\ edges[1].targetHandle = "foo"
    /\ edges[2].targetHandle = "timestamp"
    /\ executionNodes[2].output = Str("0")
    /\ DOMAIN collected.inputs = {"timestamp"}

\* C18: for every node type, an incoming edge whose targetHandle is not one
\* the type recognizes still delivers the output of its completed source,
\* under a key equal to the handle name: the value is not dropped.  The
\* handle foo is recognized by no type; source 2 is completed.
C18_UnrecognizedHandlePassesThrough ==
    (/\ pc = "collected"
     /\ edges[2].targetHandle = "foo"
     /\ Truthy(executionNodes[2].output))
    => /\ "foo" \in DOMAIN collected.inputs
       /\ collected.inputs["foo"] = executionNodes[2].output

\* the output carried by the i-th edge
EdgeOutput(i) == executionNodes[edges[i].source].output

\* the edges whose source is completed, and those among them that carry a
\* non-empty (truthy) output
CompletedEdges == {i \in 1..Len(edges) : StatusOf(edges[i].source) = "completed"}

NonEmptyEdges == {i \in CompletedEdges : Truthy(EdgeOutput(i))}

\* The llm routing, said of the edges in E: the field of a prompt handle is
\* the output of the last edge of E with that handle, and the images list
\* is the outputs of the edges of E with an images-<index> handle, one entry
\* per edge, in edge order.
LlmRoutingOver(E) ==
    LET inp == collected.inputs
        sys == {i \in E : edges[i].targetHandle = "system_prompt"}
        usr == {i \in E : edges[i].targetHandle = "user_message"}
        img == {i \in E : edges[i].targetHandle \in {"images-0", "images-1"}}
        imgSeq == SortedSeq(img)
    IN  /\ sys # {} => Get(inp, "systemPrompt") = EdgeOutput(SetMax(sys))
        /\ usr # {} => Get(inp, "userPrompt") = EdgeOutput(SetMax(usr))
        /\ img # {} => Get(inp, "images") =
                           List([j \in 1..Len(imgSeq) |-> EdgeOutput(imgSeq[j])])

\* C19: for a node of type llm, collectNodeInputs routes the output of a
\* completed source to systemPrompt for the handle system_prompt, to
\* userPrompt for user_message, and appends it to the images list for a
\* handle images-<index>, one entry per such edge.
C19_LlmRoutesCompletedOutputs ==
    (pc = "collected" /\ NodeOf(3).type = "llm") => LlmRoutingOver(CompletedEdges)

\* C19, amended: the routing holds of the completed sources whose output is
\* not empty; an empty output is not routed.
C19_LlmRoutesNonEmptyOutputs ==
    (pc = "collected" /\ NodeOf(3).type = "llm") => LlmRoutingOver(NonEmptyEdges)

\* two completed sources with different outputs on two images handles: the
\* list has both, in edge order
C19_Witness ==
    /\ pc = "collected"
    /\ NodeOf(3).type = "llm"
    /\ NonEmptyEdges = {1, 2}
    /\ edges[1].targetHandle = "images-1"
    /\ edges[2].targetHandle = "images-0"
    /\ EdgeOutput(1) = Str("hi")
    /\ EdgeOutput(2) = Str("0")
    /\ collected.inputs = [k \in {"images"} |-> List(<<Str("hi"), Str("0")>>)]

\* a NodeRun write of a dispatch closure rejected: its catch block recorded
\* the persistence error for the node
NodeWriteFailed == \E n \in DOMAIN errors : errors[n] = "db"

\* C20: if a NodeRun status write fails during a run, the run ends failed
\* and the failure is part of the run's error: executeWorkflow neither
\* returns completed nor persists completed, and when it has returned or
\* thrown the run record is failed with an error that carries the
\* persistence failure (the joined node errors, or the rejected write).
C20_WriteFailureFailsRun ==
    NodeWriteFailed =>
        /\ outcome.status # "completed"
        /\ workflowRun.status # "completed"
        /\ pc \in {"returned", "thrown"} =>
              /\ workflowRun.status = "failed"
              /\ workflowRun.error \in {"joined", "db"}

(***************************************************************************)
(* The execute endpoint                                                    *)
(***************************************************************************)
\* C21: the response of the execute endpoint has success = true exactly
\* when the run's status is completed, and a run in which a node failed is
\* reported with success = false together with the run id and the per-node
\* errors.  Said of the runs on a valid graph in which no persistence call
\* rejected.
C21_ResponseReportsOutcome ==
    (pc \in {"returned", "thrown"} /\ validation.valid /\ dbFailures = 0) =>
        /\ POST.success <=> workflowRun.status = "completed"
        /\ FailedNodes # {} =>
              /\ ~POST.success
              /\ POST.hasRunId
              /\ POST.hasErrors
              /\ \A n \in FailedNodes : n \in DOMAIN POST.errors

(***************************************************************************)
(* A text node feeding a node without routing chain                        *)
(***************************************************************************)
\* the run returned completed and the NodeRun of node 2 recorded input = "hi"
FedAndCompleted ==
    /\ pc = "returned"
    /\ outcome.status = "completed"
    /\ workflowRun.status = "completed"
    /\ Get(nodeRuns[2].inputs, "input") = Str("hi")

\* C22: for the two-node graph in which a text node with content "hi" feeds
\* a node of a generic type over an edge with targetHandle "input", the run
\* ends completed and the recorded inputs of the second node contain
\* input = "hi".  Said of the runs in which no persistence call rejected.
C22_TextFeedsGenericNode ==
    (pc \in {"returned", "thrown"} /\ dbFailures = 0) => FedAndCompleted

\* C22, amended: the same for a second node of a pass-through type (text,
\* image or video).
C22_TextFeedsPassThroughNode ==
    (pc \in {"returned", "thrown"} /\ dbFailures = 0 /\ NodeOf(2).type \in PassThrough)
        => FedAndCompleted

\* an image node fed by the text node, run completed
C22_Witness ==
    /\ NodeOf(2).type = "image"
    /\ dbFailures = 0
    /\ FedAndCompleted
    /\ StatusOf(1) = "completed" /\ StatusOf(2) = "completed"
    /\ executionNodes[1].output = Str("hi")

(***************************************************************************)
(* The wave join after a rejected dispatch                                 *)
(***************************************************************************)
\* the final status of the run is on its record
FinalStatusWritten == workflowRun.status \in {"completed", "failed"}

\* C23: when one dispatch of a wave rejects, the scheduler still waits for
\* every other dispatch of the wave to settle before it writes the final
\* status of the run and leaves executeWorkflow: once the final status is
\* written, no ExecutionNode and no NodeRun record changes any more.
C23_NoWriteAfterFinalStatus ==
    [][FinalStatusWritten => UNCHANGED <<executionNodes, nodeRuns>>]_vars

(***************************************************************************)
(* What a dispatch closure writes                                          *)
(***************************************************************************)
\* a step of a dispatch closure: the position of some closure changes while
\* executeWorkflow itself stays where it is
ClosureStep == pc' = pc /\ task' # task

\* the step leaves the ExecutionNode of every node but n alone
OwnEntryOnly(n) ==
    \A m \in DOMAIN executionNodes \ {n} : executionNodes'[m] = executionNodes[m]

\* in the collections completed, nodeResults and errors and in the NodeRun
\* records the step adds or changes nothing but what is keyed by n
OwnKeysOnly(n) ==
    /\ completed \subseteq completed' /\ completed' \subseteq completed \cup {n}
    /\ \A m \in ids \ {n} :
          /\ nodeRuns'[m] = nodeRuns[m]
          /\ Get(nodeResults', m) = Get(nodeResults, m)
          /\ (m \in DOMAIN errors') = (m \in DOMAIN errors)
          /\ m \in DOMAIN errors => errors'[m] = errors[m]

\* C24: during a wave each dispatched task writes only its own ExecutionNode
\* entry, never a sibling's, and the ExecutionNode map is the only mutable
\* state the concurrent dispatches share: a closure step changes no other
\* collection of the run.
C24_OnlyTheMapIsShared ==
    [][ClosureStep =>
          \E n \in ids : /\ task'[n] # task[n]
                          /\ \A m \in ids \ {n} : task'[m] = task[m]
                          /\ OwnEntryOnly(n)
                          /\ UNCHANGED <<completed, nodeResults, errors>>]_vars

\* C24, amended: each task writes only its own ExecutionNode entry; the
\* dispatches also share the completed set and the nodeResults and errors
\* maps, and to those, as to the NodeRun records, a task adds only what is
\* keyed by its own node.
C24_TaskWritesOnlyItsOwnKeys ==
    [][ClosureStep =>
          \E n \in ids : /\ task'[n] # task[n]
                          /\ \A m \in ids \ {n} : task'[m] = task[m]
                          /\ OwnEntryOnly(n)
                          /\ OwnKeysOnly(n)]_vars

\* two siblings of the first wave, one settled with its result recorded,
\* the other still running
C24_Witness ==
    /\ pc = "await"
    /\ \E n \in ids, m \in ids :
          /\ n # m
          /\ waveOf[n] = 1 /\ waveOf[m] = 1
          /\ task[n].pc = "settled" /\ StatusOf(n) = "completed"
          /\ n \in DOMAIN nodeResults /\ n \in completed
          /\ StatusOf(m) = "running" /\ m \notin completed

(***************************************************************************)
(* Independence of the interleaving inside a wave                          *)
(***************************************************************************)
Preds(n) == {p[1] : p \in {q \in NodeEdges : q[2] = n}}

\* By the graph and the handler outcomes alone, n has been dispatched when
\* the loop stands before wave waveNumber + 1: its level is below that wave
\* and every node it depends on completed.
Due(n) == Depth(n) < waveNumber /\ \A p \in Preds(n) : StatusOf(p) = "completed"

\* C25: for a fixed graph and fixed handler outcomes, every interleaving of
\* the dispatches inside a wave gives the same ready set for the next wave
\* and the same status, output and collected inputs for every node.  At
\* every wave boundary of a run without persistence failures the state is
\* the one value fixed by the graph and by which handlers failed: the nodes
\* dispatched so far, their waves, statuses, outputs and recorded inputs,
\* and the completed set; the order in which siblings finished has left no
\* trace.
C25_BoundaryStateIsOrderFree ==
    (pc = "loop" /\ dbFailures = 0) =>
        /\ completed = {n \in ids : Due(n)}
        /\ \A n \in ids :
              IF Due(n)
              THEN /\ waveOf[n] = Depth(n) + 1
                   /\ Terminal(StatusOf(n))
                   /\ executionNodes[n].output =
                         (IF StatusOf(n) = "failed" THEN Undefined
                          ELSE IF NodeOf(n).type = "text" THEN Str("hi")
                          ELSE Str("out"))
                   /\ nodeRuns[n].status = StatusOf(n)
                   /\ nodeRuns[n].inputs =
                         mergeNodeInputs(NodeOf(n).type, NodeOf(n).data,
                                         collectNodeInputs(n, executionNodes, edges,
                                                           NodeOf(n).type))
              ELSE /\ waveOf[n] = 0
                   /\ StatusOf(n) = "pending"
                   /\ executionNodes[n].output = Undefined
                   /\ nodeRuns[n].status = "pending"
        /\ getReadyNodes(idSeq, executionNodes) =
              SelectIdx(idSeq, {n \in ids : ~Due(n) /\ Depth(n) = waveNumber
                                            /\ \A p \in Preds(n) : StatusOf(p) = "completed"}, 1)

\* the boundary after a wave of two siblings, of which one failed and one
\* completed, with a node of the next level ready
C25_Witness ==
    /\ pc = "loop"
    /\ dbFailures = 0
    /\ waveNumber = 2
    /\ \E n \in ids, m \in ids, k \in ids :
          /\ waveOf[n] = 2 /\ waveOf[m] = 2
          /\ StatusOf(n) = "failed" /\ StatusOf(m) = "completed"
          /\ k \in Range(getReadyNodes(idSeq, executionNodes))

(***************************************************************************)
(* buildExecutionGraph                                                     *)
(***************************************************************************)
\* how often x occurs in the sequence q
Count(q, x) == Cardinality({i \in 1..Len(q) : q[i] = x})

\* C26: buildExecutionGraph creates exactly one ExecutionNode per node, all
\* pending, and for every pair (s, t) of nodes s occurs in the dependencies
\* of t exactly once if the edge list has at least one edge s -> t and not
\* at all otherwise, however often the edge is repeated; t occurs in the
\* dependents of s under the same condition.
C26_GraphBuiltWithoutRepeats ==
    pc = "built" =>
        /\ DOMAIN executionNodes = ids
        /\ \A n \in ids : StatusOf(n) = "pending"
        /\ \A s \in ids, t \in ids :
              LET n == IF <<s, t>> \in NodeEdges THEN 1 ELSE 0
              IN  /\ Count(executionNodes[t].dependencies, s) = n
                  /\ Count(executionNodes[s].dependents, t) = n

\* the edge 1 -> 2 submitted twice, recorded once
C26_Witness ==
    /\ pc = "built"
    /\ Len(edges) >= 2
    /\ edges[1] = edges[2]
    /\ edges[1].source = 1 /\ edges[1].target = 2
    /\ 2 \in ids
    /\ executionNodes[2].dependencies = <<1>>
    /\ executionNodes[1].dependents = <<2>>

(***************************************************************************)
(* The id named by the dangling-edge error                                 *)
(***************************************************************************)
SetMin(S) == CHOOSE x \in S : \A y \in S : x <= y

\* the id the error is to name: of the first edge with a missing endpoint,
\* the source if it is missing, else the target
OffendingId ==
    LET e == edges[SetMin(DanglingAt)]
    IN  IF e.source \notin ids THEN e.source ELSE e.target

\* C27: when the edge list contains edges with a missing endpoint, the
\* validation error names the offending id of the first such edge in list
\* order, the source for an edge whose source and target are both missing.
C27_FirstOffendingIdNamed ==
    (pc # "start" /\ DanglingAt # {}) =>
        /\ validation.kind = "dangling"
        /\ validation.ref = OffendingId

\* C27, amended: the same for the edge lists in which detectCycles, which
\* runs first, reports no cycle.
C27_FirstOffendingIdNamedUnlessCycle ==
    (pc # "start" /\ DanglingAt # {} /\ validation.kind # "cycle") =>
        /\ validation.kind = "dangling"
        /\ validation.ref = OffendingId

\* the first offending edge has two different missing endpoints and its
\* source is named; a later edge has a missing endpoint too, with a source
\* that is another id
C27_Witness ==
    /\ pc = "thrown"
    /\ validation.kind = "dangling"
    /\ LET e == edges[SetMin(DanglingAt)]
       IN  /\ e.source \notin ids /\ e.target \notin ids
           /\ e.source # e.target
           /\ validation.ref = e.source
           /\ \E j \in DanglingAt : j > SetMin(DanglingAt) /\ edges[j].source # e.source

(***************************************************************************)
(* The order of the persistence writes                                     *)
(***************************************************************************)
\* a dispatch closure that has not run to its end
InFlight(n) == task[n].pc \notin {"idle", "settled", "rejected"}

\* a step that dispatches a node finds the WorkflowRun record created
RunCreatedBeforeDispatch ==
    (\E n \in ids : waveOf[n] = 0 /\ waveOf'[n] > 0) => workflowRun.status = "running"

\* a step that writes completed or failed on a NodeRun finds the node
\* dispatched and its NodeRun running, unless an update has rejected
RunningBeforeTerminal ==
    \A n \in ids :
        (Terminal(nodeRuns'[n].status) /\ nodeRuns'[n].status # nodeRuns[n].status) =>
            /\ waveOf[n] > 0
            /\ nodeRuns[n].status = "running" \/ dbFailures > 0

\* a step that writes the final status finds the run running and no dispatch
\* closure in flight; a step that leaves executeWorkflow after the run was
\* created leaves the final status on its record
FinalStatusOnceAfterWaves ==
    /\ (FinalStatusWritten' /\ workflowRun' # workflowRun) =>
            /\ workflowRun.status = "running"
            /\ \A n \in ids : ~InFlight(n)
    /\ (pc' \in {"returned", "thrown"} /\ pc # pc' /\ workflowRun'.status # "none") =>
            FinalStatusWritten'

\* C28: the persistence writes follow a fixed order in every run: the
\* WorkflowRun record is created before any node is dispatched; the NodeRun
\* of a dispatched node is written running before it is written completed
\* or failed; the final status of the run is written exactly once, after
\* the last wave has finished.
C28_WritesInFixedOrder ==
    [][/\ RunCreatedBeforeDispatch
       /\ RunningBeforeTerminal
       /\ FinalStatusOnceAfterWaves]_vars

(***************************************************************************)
(* One dispatch per node                                                   *)
(***************************************************************************)
\* the nodes whose ExecutionNode is completed or failed
TerminalExecutionNodes == {n \in DOMAIN executionNodes : Terminal(StatusOf(n))}

\* the node keeps the wave that dispatched it
OneWave(n) == waveOf[n] > 0 => waveOf'[n] = waveOf[n]

\* the step that calls executeNode for the node is a step of the wave that
\* dispatched it and finds neither a result nor an error recorded for it
OneInvocation(n) ==
    (task'[n].pc = "exec" /\ task[n].pc # "exec") =>
        /\ waveOf[n] = waveNumber
        /\ StatusOf(n) = "running"
        /\ n \notin completed
        /\ n \notin DOMAIN nodeResults
        /\ n \notin DOMAIN errors

\* C29: in one run every node is dispatched at most once: executeNode is
\* invoked at most one time for it, it is in at most one wave, and at each
\* wave boundary the completed set has as many entries as there are
\* ExecutionNodes whose status is completed or failed.
C29_DispatchedAtMostOnce ==
    [][/\ \A n \in ids : OneWave(n) /\ OneInvocation(n)
       /\ pc' = "loop" =>
             /\ Cardinality(completed') = Cardinality(TerminalExecutionNodes')
             /\ \A n \in ids : ~InFlight(n)']_vars

\* the boundary after a second wave: a node of the first wave failed, a node
\* of the first and one of the second wave completed, all three are counted
C29_Witness ==
    /\ pc = "loop"
    /\ waveNumber = 2
    /\ \E a, b, c \in ids :
          /\ waveOf[a] = 1 /\ StatusOf(a) = "completed"
          /\ waveOf[b] = 1 /\ StatusOf(b) = "failed"
          /\ waveOf[c] = 2 /\ StatusOf(c) = "completed"
          /\ {a, b, c} \subseteq completed
    /\ Cardinality(completed) = Cardinality(TerminalExecutionNodes)

(***************************************************************************)
(* topologicalSort against detectCycles                                    *)
(***************************************************************************)
\* the place of node n in sortedNodes
PlaceOf(n) == CHOOSE i \in 1..Len(sortedNodes) : sortedNodes[i] = n

\* sortedNodes holds every node exactly once, the source of every edge
\* before its target
SortedInEdgeOrder ==
    /\ Len(sortedNodes) = Len(nodes)
    /\ Range(sortedNodes) = ids
    /\ \A i \in 1..Len(edges) : PlaceOf(edges[i].source) < PlaceOf(edges[i].target)

\* on a graph that validateDAG accepts topologicalSort returns such a list
SortsAcceptedGraphs ==
    validateDAG(idSeq, edges).valid => pc = "sorted" /\ SortedInEdgeOrder

\* topologicalSort has thrown exactly if detectCycles reports a cycle
ThrowsIffCycle == pc = "thrown" <=> detectCycles(idSeq, edges).found

====
